---- MODULE Spec2Model ----
(***************************************************************************)
(* State-machine model of inventory-provisioners/esxi/inventory.py:        *)
(* the AnsibleInventoryESXI dynamic inventory script.                      *)
(*                                                                         *)
(* Python values are modelled as follows: str as a TLA+ string, None as    *)
(* the reserved string None (no input string has that value), a list as a  *)
(* sequence, a dict as a function whose DOMAIN is the set of keys, and the *)
(* text searched by re.match (the VM annotation) as a sequence of          *)
(* one-character strings.                                                  *)
(***************************************************************************)
EXTENDS Naturals, Sequences, FiniteSets, TLC

VARIABLES
    pc,          \* position of the run: which statement of main / of the called method is next
    entry,       \* the method the run started in: "main" or a method called directly
    args,        \* parse_args: the argparse namespace (list, host), or NotRead
    env,         \* os.environ restricted to the five ANSIBLE_INVENTORY_SCRIPT_* variables
    cfgfile,     \* the <script>.yaml file beside the script
    config_vars, \* config_get_vars: the resolved settings dict
    session,     \* the pyVim session: "none", "open" or "closed"
    atexit,      \* handlers registered with atexit.register, in order
    disconnects, \* number of calls of pyVim.connect.Disconnect so far
    vm_list,     \* the list of vim.VirtualMachine records
    group_by,    \* parameter of output_vm_list_data
    use_ip,      \* parameter of output_vm_list_data
    host,        \* parameter of output_vm_data
    idx,         \* output_vm_list_data: index of the next record of the for loop
    group,       \* output_vm_list_data: the local variable group (Unbound until assigned)
    inventory,   \* output_vm_list_data: the local dict inventory
    result,      \* what the called method returned (the text handed to print)
    error,       \* the exception that ended the run or the method, or None
    stdout,      \* what has been written to standard output, in order
    exit_code    \* the process exit status, or None while running

vars == <<pc, entry, args, env, cfgfile, config_vars, session, atexit, disconnects,
          vm_list, group_by, use_ip, host, idx, group, inventory, result, error,
          stdout, exit_code>>

----------------------------------------------------------------------------
(* Bounds of the model. *)

\* longest VM list handed to a projection called directly
MaxVMs == 3

\* longest VM list enumerated in a run of main
MaxMainVMs == 2

----------------------------------------------------------------------------
(* Python values. *)

None == "<None>"
Unbound == "<unbound>"
NotRead == "<not read>"

Range(s) == {s[k] : k \in 1..Len(s)}

EmptyDict == [k \in {} |-> None]

\* Python's  a or b  on optional strings: a unless a is falsy (None or '').
PyOr(a, b) == IF a \in {None, ""} THEN b ELSE a

RECURSIVE Str(_)
\* ''.join(chars): the string made of a sequence of characters.
Str(chars) == IF chars = <<>> THEN "" ELSE Head(chars) \o Str(Tail(chars))

----------------------------------------------------------------------------
(* The regular expression of output_vm_list_data (re.match at line 133).   *)
(* Its four groups are: 1 any run of characters (dot star), 2 the literal  *)
(* group=, 3 one or more \w, 4 one of comma, semicolon, colon, \s or the   *)
(* dollar anchor. It is matched the way Python's backtracking matcher      *)
(* does, on a str pattern without flags: the dot is any character but a    *)
(* newline, \w and \s are the Unicode classes, the dollar anchor is the    *)
(* end of the text or the place before a final newline, and re.match       *)
(* anchors the match at the start of the text only.                        *)

AsciiWord == {"a", "b", "c", "d", "e", "f", "g", "h", "i", "j", "k", "l", "m",
              "n", "o", "p", "q", "r", "s", "t", "u", "v", "w", "x", "y", "z",
              "A", "B", "C", "D", "E", "F", "G", "H", "I", "J", "K", "L", "M",
              "N", "O", "P", "Q", "R", "S", "T", "U", "V", "W", "X", "Y", "Z",
              "0", "1", "2", "3", "4", "5", "6", "7", "8", "9", "_"}

\* letters outside ASCII that occur in the annotations of the model
UnicodeWord == {"é"}

\* \w of a str pattern: [a-zA-Z0-9_] and every other Unicode word character
IsWord(c) == c \in AsciiWord \cup UnicodeWord

\* \s of a str pattern, for the white space the annotations can hold
IsSpace(c) == c \in {" ", "\t", "\n", "\r", "\f"}

GroupEq == <<"g", "r", "o", "u", "p", "=">>

RECURSIVE DotMax(_, _)
\* the most characters group 1 can take from position 1: up to the first newline
DotMax(s, n) ==
    IF n < Len(s) /\ s[n + 1] # "\n" THEN DotMax(s, n + 1) ELSE n

\* group 2 matches the text right after the first p characters
LiteralAt(s, p) ==
    /\ p + Len(GroupEq) <= Len(s)
    /\ \A k \in 1..Len(GroupEq) : s[p + k] = GroupEq[k]

RECURSIVE WordMax(_, _, _)
\* the most characters group 3 can take after the first q characters
WordMax(s, q, n) ==
    IF q + n < Len(s) /\ IsWord(s[q + n + 1]) THEN WordMax(s, q, n + 1) ELSE n

\* group 4 matches after the first q characters
DelimAt(s, q) ==
    \/ q < Len(s) /\ s[q + 1] \in {",", ";", ":"}
    \/ q < Len(s) /\ IsSpace(s[q + 1])
    \/ q = Len(s)
    \/ q = Len(s) - 1 /\ s[Len(s)] = "\n"

RECURSIVE WordTry(_, _, _)
\* group 3 is greedy and gives characters back one at a time until the
\* delimiter matches; 0 when no length of at least 1 works
WordTry(s, q, n) ==
    IF n = 0 THEN 0
    ELSE IF DelimAt(s, q + n) THEN n
    ELSE WordTry(s, q, n - 1)

RECURSIVE DotTry(_, _)
\* group 1 is greedy and gives characters back one at a time until the rest
\* of the pattern matches; the result is the text of group 3, or the empty
\* sequence when nothing matches (group 3 is never empty in a match).
\* p is the number of characters group 1 holds.
DotTry(s, p) ==
    LET q == p + Len(GroupEq)
        n == IF LiteralAt(s, p) THEN WordTry(s, q, WordMax(s, q, 0)) ELSE 0
    IN  IF n > 0 THEN SubSeq(s, q + 1, q + n)
        ELSE IF p = 0 THEN <<>>
        ELSE DotTry(s, p - 1)

\* regexp.groups()[2] as a string, or None when re.match returns None
ReMatchGroup(annotation) ==
    LET m == DotTry(annotation, DotMax(annotation, 0))
    IN  IF m = <<>> THEN None ELSE Str(m)

----------------------------------------------------------------------------
(* The VM records of the hypervisor (vim.VirtualMachine), with the         *)
(* attributes the script reads.                                            *)

VM(name, guestState, toolsStatus, ipAddress, hostName, guestId, guestFamily, annotation) ==
    [name |-> name,
     guest |-> [guestState |-> guestState,
                toolsStatus |-> toolsStatus,
                toolsRunningStatus |->
                    IF toolsStatus = "toolsOk" THEN "guestToolsRunning"
                    ELSE "guestToolsNotRunning",
                hostName |-> hostName,
                ipAddress |-> ipAddress,
                guestId |-> guestId,
                guestFamily |-> guestFamily,
                guestFullName |-> guestId],
     summary |-> [runtime |-> [powerState |->
                                   IF guestState = "notRunning" THEN "poweredOff"
                                   ELSE "poweredOn"],
                  config |-> [template |-> FALSE,
                              vmPathName |-> name,
                              instanceUuid |-> name,
                              annotation |-> annotation,
                              memorySizeMB |-> 2048,
                              numCpu |-> 2],
                  guest |-> [ipAddress |-> ipAddress]]]

AnnSpec == <<"e", "n", "v", "=", "p", "r", "o", "d", ",", "g", "r", "o", "u", "p", "=", "w", "e", "b", "1", ";", "t", "e", "a", "m", "=", "x">>
AnnNoGroup == <<"n", "o", " ", "g", "r", "o", "u", "p", " ", "h", "e", "r", "e">>
AnnPlain == <<"g", "r", "o", "u", "p", "=", "d", "b">>
AnnSecondLine == <<"d", "b", "\n", "g", "r", "o", "u", "p", "=", "d", "b">>
AnnDash == <<"g", "r", "o", "u", "p", "=", "a", "-", "b">>
AnnAll == <<"g", "r", "o", "u", "p", "=", "a", "l", "l">>
AnnUnicode == <<"g", "r", "o", "u", "p", "=", "é">>
AnnTwo == <<"g", "r", "o", "u", "p", "=", "a", "-", "b", ",", "g", "r", "o", "u", "p", "=", "d", "b">>

\* the VM records the enumeration draws from (a container view lists each
\* virtual machine once, so a list holds no record twice)
VMPool ==
    { VM("web1", "running", "toolsOk", "10.0.0.5", "web1",
         "ubuntu64Guest", "linuxGuest", AnnSpec),
      VM("db1", "running", "toolsOk", "10.0.0.6", "db1",
         "", "linuxGuest", AnnNoGroup),
      VM("old1", "notRunning", "toolsNotRunning", None, None,
         "ubuntu64Guest", "linuxGuest", AnnPlain),
      VM("bare1", "running", "toolsNotInstalled", None, None,
         None, None, <<>>),
      VM("boot1", "running", "toolsNotRunning", None, None,
         "ubuntu64Guest", "linuxGuest", AnnDash),
      VM("web2", "running", "toolsOk", "10.0.0.5", "web1",
         "ubuntu64Guest", "linuxGuest", AnnSecondLine),
      VM("app1", "running", "toolsOk", "10.0.0.7", "app1",
         None, None, AnnAll),
      VM("cafe1", "running", "toolsOk", "10.0.0.8", "db1",
         "windows9Server64Guest", "windowsGuest", AnnUnicode),
      VM("db2", "running", "toolsOld", "10.0.0.6", "db2",
         "ubuntu64Guest", "linuxGuest", AnnTwo) }

RECURSIVE SeqsUpTo(_, _)
\* the sequences of distinct elements of S of length at most n
SeqsUpTo(S, n) ==
    IF n = 0 THEN {<<>>}
    ELSE LET shorter == SeqsUpTo(S, n - 1)
         IN  shorter \cup
             UNION {{Append(s, x) : x \in S \ Range(s)} : s \in shorter}

VMLists == SeqsUpTo(VMPool, MaxVMs)

\* the values group_by takes: the two the method knows and one it does not
GroupBys == {"vm_os_type_id", "vm_annotation_group", "vm_folder"}

\* the host names and addresses asked for
HostQueries == {"10.0.0.5", "10.0.0.6", "web1", "db1", "10.0.0.9", None}

----------------------------------------------------------------------------
(* output_vm_data (lines 149-180).                                         *)

\* the fourteen attributes copied from one record (lines 163-176)
VmInfo(vm) ==
    [vm_name |-> vm.name,
     vm_state |-> vm.summary.runtime.powerState,
     vm_template |-> vm.summary.config.template,
     vm_path |-> vm.summary.config.vmPathName,
     vm_instance_uuid |-> vm.summary.config.instanceUuid,
     vm_annotation |-> vm.summary.config.annotation,
     vm_spec_memory_mb |-> vm.summary.config.memorySizeMB,
     vm_spec_cpu_count |-> vm.summary.config.numCpu,
     vm_os_type_id |-> vm.guest.guestId,
     vm_os_type_name |-> vm.guest.guestFullName,
     vm_tools_status |-> vm.guest.toolsStatus,
     vm_tools_running_status |-> vm.guest.toolsRunningStatus,
     vm_hostname |-> vm.guest.hostName,
     vm_ip_address |-> vm.summary.guest.ipAddress]

\* host in [ipaddress, hostname]  (line 162)
HostMatches(vm, h) == h = vm.guest.ipAddress \/ h = vm.guest.hostName

\* lines 163-176 assigning only the keys vm_info does not hold yet
OverwriteMissing(vm_info, new) == vm_info @@ new

\* vm_info after the assignments of lines 163-176: every key assigned is
\* overwritten, every other key kept
Overwrite(vm_info, new) == new @@ vm_info

RECURSIVE ScanVmData(_, _, _, _)
\* the for loop of lines 159-176 from record k on, with accumulator vm_info
ScanVmData(vms, h, k, vm_info) ==
    IF k > Len(vms) THEN vm_info
    ELSE ScanVmData(vms, h, k + 1,
                    IF HostMatches(vms[k], h)
                    THEN Overwrite(vm_info, VmInfo(vms[k]))
                    ELSE vm_info)

\* output_vm_data(vm_list, host, return_dict=True)
OutputVmData(vms, h) == ScanVmData(vms, h, 1, EmptyDict)

\* json.dumps(value, indent=4): the text, kept as the value it encodes
JsonDumps(value) == [json |-> value]

----------------------------------------------------------------------------
(* output_vm_list_data (lines 104-147).                                    *)

\* lines 117-121
NewInventory ==
    [k \in {"all", "_meta"} |->
        IF k = "all" THEN [children |-> <<>>] ELSE [hostvars |-> EmptyDict]]

\* the two continue tests of lines 124-127
Skipped(vm) ==
    \/ vm.guest.guestState = "notRunning"
    \/ vm.guest.toolsStatus = "toolsNotInstalled"

\* lines 130-134 with an else branch that falls back to 'ungrouped'
ComputeGroupElse(vm, gb, g) ==
    IF gb = "vm_os_type_id"
    THEN PyOr(vm.guest.guestId, vm.guest.guestFamily)
    ELSE LET regexp == ReMatchGroup(vm.summary.config.annotation)
         IN  IF gb = "vm_annotation_group" /\ regexp # None THEN regexp
             ELSE "ungrouped"

\* lines 130-134: the value of the local group after the if/elif, g being
\* its value before (Unbound when it was never assigned)
ComputeGroup(vm, gb, g) ==
    IF gb = "vm_os_type_id"
    THEN PyOr(vm.guest.guestId, vm.guest.guestFamily)
    ELSE IF gb = "vm_annotation_group"
    THEN LET regexp == ReMatchGroup(vm.summary.config.annotation)
         IN  IF regexp # None THEN regexp ELSE "ungrouped"
    ELSE g

\* lines 136-137 without the membership test
AddChildAlways(inv, g) == [inv EXCEPT !["all"].children = Append(@, g)]

\* lines 136-137
AddChild(inv, g) ==
    IF g \notin Range(inv["all"].children)
    THEN [inv EXCEPT !["all"].children = Append(@, g)]
    ELSE inv

\* lines 139-141
AddGroup(inv, g) ==
    IF g \notin DOMAIN inv THEN (g :> [hosts |-> <<>>]) @@ inv ELSE inv

\* line 143
HostValue(vm, ip) == IF ip THEN vm.guest.ipAddress ELSE vm.guest.hostName

\* d[k] = v on a dict
SetItem(d, k, v) == (k :> v) @@ d

\* lines 144-145 with hostvars keyed by the name of the virtual machine
AddHostByName(inv, g, value, vm_info) ==
    LET listed == [inv EXCEPT ![g].hosts = Append(@, value)]
    IN  [listed EXCEPT !["_meta"].hostvars = SetItem(@, vm_info.vm_name, vm_info)]

\* lines 144-145 with a host listed once per group
AddHostOnce(inv, g, value, vm_info) ==
    LET listed == IF value \in Range(inv[g].hosts) THEN inv
                  ELSE [inv EXCEPT ![g].hosts = Append(@, value)]
    IN  [listed EXCEPT !["_meta"].hostvars = SetItem(@, value, vm_info)]

\* lines 144-145, when inventory[group] has the key 'hosts'
AddHost(inv, g, value, vm_info) ==
    LET listed == [inv EXCEPT ![g].hosts = Append(@, value)]
    IN  [listed EXCEPT !["_meta"].hostvars = SetItem(@, value, vm_info)]

\* an exception leaves the method: uncaught in main it ends the process
\* with a traceback on standard error and status 1
Raise(e) ==
    /\ error' = e
    /\ pc' = IF entry = "main" THEN "exiting" ELSE "raised"
    /\ exit_code' = IF entry = "main" THEN 1 ELSE exit_code

\* sys.exit(status) or parser.exit(status): SystemExit ends the process
SysExit(status) ==
    /\ error' = "SystemExit"
    /\ pc' = IF entry = "main" THEN "exiting" ELSE "raised"
    /\ exit_code' = status

\* the method returns to main (line 210 is next) or to its direct caller
Return(value) ==
    /\ result' = value
    /\ pc' = IF entry = "main" THEN "print" ELSE "returned"

\* one iteration of the for loop that takes a continue (lines 124-127)
ListSkip ==
    /\ pc = "list_loop"
    /\ idx <= Len(vm_list)
    /\ Skipped(vm_list[idx])
    /\ idx' = idx + 1
    /\ UNCHANGED <<pc, entry, args, env, cfgfile, config_vars, session, atexit,
                   disconnects, vm_list, group_by, use_ip, host, group,
                   inventory, result, error, stdout, exit_code>>

\* one whole iteration of the for loop (lines 128-145)
ListAdd ==
    /\ pc = "list_loop"
    /\ idx <= Len(vm_list)
    /\ LET vm == vm_list[idx]
           g == ComputeGroup(vm, group_by, group)
           grouped == AddGroup(AddChild(inventory, g), g)
           value == HostValue(vm, use_ip)
       IN  /\ ~Skipped(vm)
           /\ g # Unbound
           /\ "hosts" \in DOMAIN grouped[g]
           /\ group' = g
           /\ inventory' = AddHost(grouped, g, value, OutputVmData(vm_list, value))
    /\ idx' = idx + 1
    /\ UNCHANGED <<pc, entry, args, env, cfgfile, config_vars, session, atexit,
                   disconnects, vm_list, group_by, use_ip, host, result, error,
                   stdout, exit_code>>

\* line 136 reads the local group before any assignment: UnboundLocalError
ListUnbound ==
    /\ pc = "list_loop"
    /\ idx <= Len(vm_list)
    /\ ~Skipped(vm_list[idx])
    /\ ComputeGroup(vm_list[idx], group_by, group) = Unbound
    /\ Raise("UnboundLocalError")
    /\ UNCHANGED <<entry, args, env, cfgfile, config_vars, session, atexit,
                   disconnects, vm_list, group_by, use_ip, host, idx, group,
                   inventory, result, stdout>>

\* line 144 on a group named like one of the two fixed keys of inventory,
\* whose dict has no 'hosts': KeyError, after line 137 has run
ListKeyError ==
    /\ pc = "list_loop"
    /\ idx <= Len(vm_list)
    /\ LET vm == vm_list[idx]
           g == ComputeGroup(vm, group_by, group)
           grouped == AddGroup(AddChild(inventory, g), g)
       IN  /\ ~Skipped(vm)
           /\ g # Unbound
           /\ "hosts" \notin DOMAIN grouped[g]
           /\ group' = g
           /\ inventory' = grouped
    /\ Raise("KeyError")
    /\ UNCHANGED <<entry, args, env, cfgfile, config_vars, session, atexit,
                   disconnects, vm_list, group_by, use_ip, host, idx, result,
                   stdout>>

\* line 147
ListReturn ==
    /\ pc = "list_loop"
    /\ idx > Len(vm_list)
    /\ Return(JsonDumps(inventory))
    /\ UNCHANGED <<entry, args, env, cfgfile, config_vars, session, atexit,
                   disconnects, vm_list, group_by, use_ip, host, idx, group,
                   inventory, error, stdout, exit_code>>

\* output_vm_data called with return_dict=False (lines 158-180)
HostReturn ==
    /\ pc = "host_scan"
    /\ Return(JsonDumps(OutputVmData(vm_list, host)))
    /\ UNCHANGED <<entry, args, env, cfgfile, config_vars, session, atexit,
                   disconnects, vm_list, group_by, use_ip, host, idx, group,
                   inventory, error, stdout, exit_code>>

----------------------------------------------------------------------------
(* Specifications of the two projections called directly.                  *)

\* the state at the call of a method: nothing read, nothing written yet
Idle ==
    /\ args = NotRead
    /\ env = NotRead
    /\ cfgfile = NotRead
    /\ config_vars = NotRead
    /\ session = "none"
    /\ atexit = <<>>
    /\ disconnects = 0
    /\ result = NotRead
    /\ error = None
    /\ stdout = <<>>
    /\ exit_code = None

\* output_vm_list_data(vm_list, group_by, use_ip) is called
InitList ==
    /\ Idle
    /\ entry = "output_vm_list_data"
    /\ pc = "list_loop"
    /\ vm_list \in VMLists
    /\ group_by \in GroupBys
    /\ use_ip \in BOOLEAN
    /\ host = NotRead
    /\ idx = 1
    /\ group = Unbound
    /\ inventory = NewInventory

NextList == ListSkip \/ ListAdd \/ ListUnbound \/ ListKeyError \/ ListReturn

SpecList == InitList /\ [][NextList]_vars

\* output_vm_data(vm_list, host) is called
InitHost ==
    /\ Idle
    /\ entry = "output_vm_data"
    /\ pc = "host_scan"
    /\ vm_list \in VMLists
    /\ host \in HostQueries
    /\ group_by = NotRead
    /\ use_ip = NotRead
    /\ idx = 1
    /\ group = Unbound
    /\ inventory = NotRead

NextHost == HostReturn

SpecHost == InitHost /\ [][NextHost]_vars

----------------------------------------------------------------------------
(* config_file_load and config_get_vars (lines 74-102).                    *)

\* the five settings, in the order lines 93-97 resolve them; the variable
\* ANSIBLE_INVENTORY_SCRIPT_<NAME> of the environment is named by its key
Fields == <<"esxi_host", "esxi_port", "esxi_username", "esxi_password", "group_by">>

Unset == "<unset>"

\* the value a setting has in the environment, when set
EnvValues(f) == IF f = "group_by" THEN GroupBys ELSE {"env " \o f}

\* the value a key has in the file, when present
FileValues(f) == IF f = "group_by" THEN GroupBys ELSE {"yaml " \o f}

\* os.environ: each of the five variables set or not
Envs == {e \in [Range(Fields) -> {Unset} \cup GroupBys \cup {"env " \o f : f \in Range(Fields)}] :
            \A f \in Range(Fields) : e[f] \in {Unset} \cup EnvValues(f)}

\* the dicts the file can hold: any subset of the five keys
FileDicts ==
    UNION {{d \in [K -> GroupBys \cup {"yaml " \o f : f \in Range(Fields)}] :
               \A f \in K : d[f] \in FileValues(f)} : K \in SUBSET Range(Fields)}

\* the configuration file: absent, not YAML, empty (yaml.load gives None),
\* or a mapping
Files ==
    {[kind |-> k, content |-> EmptyDict] : k \in {"missing", "malformed", "empty"}}
    \cup {[kind |-> "mapping", content |-> d] : d \in FileDicts}

\* yaml.load returned: the file was opened and is well-formed
Loaded(f) == f.kind \in {"empty", "mapping"}

\* config_file_data[key] raises (KeyError, or TypeError on None)
LookupFails(f, key) == f.kind = "empty" \/ key \notin DOMAIN f.content

RECURSIVE FirstFailing(_, _)
\* the first of lines 93-97 whose default=config_file_data[key] raises;
\* 0 when none does
FirstFailing(f, k) ==
    IF k > Len(Fields) THEN 0
    ELSE IF LookupFails(f, Fields[k]) THEN k
    ELSE FirstFailing(f, k + 1)

\* os.getenv(name, default=value): the default is evaluated by the caller
GetEnv(e, key, default) == IF e[key] # Unset THEN e[key] ELSE default

\* config_vars after lines 93-97, when no lookup raises
ResolveVars(e, f) == [key \in Range(Fields) |-> GetEnv(e, key, f.content[key])]

\* line 77: open raises FileNotFoundError, which nothing catches
ConfigOpenError(e, f) ==
    /\ pc = "config_get_vars"
    /\ f.kind = "missing"
    /\ Raise("FileNotFoundError")
    /\ UNCHANGED <<entry, args, env, cfgfile, config_vars, session, atexit,
                   disconnects, vm_list, group_by, use_ip, host, idx, group,
                   inventory, result, stdout>>

\* lines 80-82: yaml.YAMLError is printed and the process exits with 1
ConfigYamlError(e, f) ==
    /\ pc = "config_get_vars"
    /\ f.kind = "malformed"
    /\ stdout' = Append(stdout, [diagnostic |-> "YAMLError"])
    /\ SysExit(1)
    /\ UNCHANGED <<entry, args, env, cfgfile, config_vars, session, atexit,
                   disconnects, vm_list, group_by, use_ip, host, idx, group,
                   inventory, result>>

\* lines 98-100: a lookup in the file data raised
ConfigMissingVar(e, f) ==
    /\ pc = "config_get_vars"
    /\ Loaded(f)
    /\ FirstFailing(f, 1) # 0
    /\ stdout' = Append(stdout, [diagnostic |-> Fields[FirstFailing(f, 1)]])
    /\ SysExit(1)
    /\ UNCHANGED <<entry, args, env, cfgfile, config_vars, session, atexit,
                   disconnects, vm_list, group_by, use_ip, host, idx, group,
                   inventory, result>>

\* line 102
ConfigOk(e, f) ==
    /\ pc = "config_get_vars"
    /\ Loaded(f)
    /\ FirstFailing(f, 1) = 0
    /\ config_vars' = ResolveVars(e, f)
    /\ pc' = IF entry = "main" THEN "connect" ELSE "returned"
    /\ UNCHANGED <<entry, args, env, cfgfile, session, atexit, disconnects,
                   vm_list, group_by, use_ip, host, idx, group, inventory,
                   result, error, stdout, exit_code>>

\* config_get_vars() is called with the environment and the file given
InitConfig ==
    /\ args = NotRead
    /\ env \in Envs
    /\ cfgfile \in Files
    /\ config_vars = NotRead
    /\ session = "none"
    /\ atexit = <<>>
    /\ disconnects = 0
    /\ result = NotRead
    /\ error = None
    /\ stdout = <<>>
    /\ exit_code = None
    /\ entry = "config_get_vars"
    /\ pc = "config_get_vars"
    /\ vm_list = NotRead
    /\ group_by = NotRead
    /\ use_ip = NotRead
    /\ host = NotRead
    /\ idx = 1
    /\ group = Unbound
    /\ inventory = NotRead

NextConfig ==
    \/ ConfigOpenError(env, cfgfile)
    \/ ConfigYamlError(env, cfgfile)
    \/ ConfigMissingVar(env, cfgfile)
    \/ ConfigOk(env, cfgfile)

SpecConfig == InitConfig /\ [][NextConfig]_vars

----------------------------------------------------------------------------
(* parse_args (lines 60-72) and main (lines 191-210).                      *)

\* the namespaces argparse can return: --list given or not, --host with a
\* value ('' included) or not given (None)
Namespaces == [list : BOOLEAN, host : {None, "", "10.0.0.5"}]

\* not args.list and not args.host  (line 68)
NothingAsked(a) == ~a.list /\ a.host \in {None, ""}

\* argparse rejects the command line (an unknown option, --host without a
\* value): usage on standard error, status 2
ParseArgsError ==
    /\ pc = "parse_args"
    /\ SysExit(2)
    /\ UNCHANGED <<entry, args, env, cfgfile, config_vars, session, atexit,
                   disconnects, vm_list, group_by, use_ip, host, idx, group,
                   inventory, result, stdout>>

\* lines 68-70: print_help() writes the help to standard output and
\* parser.exit() leaves with its default status, 0
ParseArgsHelp ==
    /\ pc = "parse_args"
    /\ \E a \in Namespaces :
        /\ NothingAsked(a)
        /\ args' = a
    /\ stdout' = Append(stdout, [help |-> "usage"])
    /\ SysExit(0)
    /\ UNCHANGED <<entry, env, cfgfile, config_vars, session, atexit,
                   disconnects, vm_list, group_by, use_ip, host, idx, group,
                   inventory, result>>

\* line 72, then line 192
ParseArgsOk ==
    /\ pc = "parse_args"
    /\ \E a \in Namespaces :
        /\ ~NothingAsked(a)
        /\ args' = a
    /\ pc' = "config_get_vars"
    /\ UNCHANGED <<entry, env, cfgfile, config_vars, session, atexit,
                   disconnects, vm_list, group_by, use_ip, host, idx, group,
                   inventory, result, error, stdout, exit_code>>

\* lines 194-200: SmartConnectNoSSL returns a session
ConnectOk ==
    /\ pc = "connect"
    /\ session' = "open"
    /\ pc' = "register"
    /\ UNCHANGED <<entry, args, env, cfgfile, config_vars, atexit, disconnects,
                   vm_list, group_by, use_ip, host, idx, group, inventory,
                   result, error, stdout, exit_code>>

\* lines 194-200: SmartConnectNoSSL raises (transport, authentication)
ConnectError ==
    /\ pc = "connect"
    /\ Raise("ConnectionError")
    /\ UNCHANGED <<entry, args, env, cfgfile, config_vars, session, atexit,
                   disconnects, vm_list, group_by, use_ip, host, idx, group,
                   inventory, result, stdout>>

\* the registration left out
AtexitRegisterNothing(handlers, func) == handlers

\* atexit.register(func): the handlers with func added
AtexitRegister(handlers, func) == Append(handlers, func)

\* line 201
RegisterDisconnect ==
    /\ pc = "register"
    /\ atexit' = AtexitRegister(atexit, "Disconnect")
    /\ pc' = "retrieve_content"
    /\ UNCHANGED <<entry, args, env, cfgfile, config_vars, session, disconnects,
                   vm_list, group_by, use_ip, host, idx, group, inventory,
                   result, error, stdout, exit_code>>

\* line 202
RetrieveContentOk ==
    /\ pc = "retrieve_content"
    /\ pc' = "esxi_get_vms"
    /\ UNCHANGED <<entry, args, env, cfgfile, config_vars, session, atexit,
                   disconnects, vm_list, group_by, use_ip, host, idx, group,
                   inventory, result, error, stdout, exit_code>>

\* line 202: the call raises
RetrieveContentError ==
    /\ pc = "retrieve_content"
    /\ Raise("vmodl.fault")
    /\ UNCHANGED <<entry, args, env, cfgfile, config_vars, session, atexit,
                   disconnects, vm_list, group_by, use_ip, host, idx, group,
                   inventory, result, stdout>>

\* esxi_get_vms (lines 182-189), called at line 203
EsxiGetVmsOk ==
    /\ pc = "esxi_get_vms"
    /\ vm_list' \in SeqsUpTo(VMPool, MaxMainVMs)
    /\ pc' = "dispatch"
    /\ UNCHANGED <<entry, args, env, cfgfile, config_vars, session, atexit,
                   disconnects, group_by, use_ip, host, idx, group, inventory,
                   result, error, stdout, exit_code>>

\* esxi_get_vms: one of its calls raises
EsxiGetVmsError ==
    /\ pc = "esxi_get_vms"
    /\ Raise("vmodl.fault")
    /\ UNCHANGED <<entry, args, env, cfgfile, config_vars, session, atexit,
                   disconnects, vm_list, group_by, use_ip, host, idx, group,
                   inventory, result, stdout>>

\* lines 205-206: the call of output_vm_list_data, up to its line 121
MainList ==
    /\ pc = "dispatch"
    /\ args.list
    /\ group_by' = config_vars["group_by"]
    /\ use_ip' = TRUE
    /\ inventory' = NewInventory
    /\ idx' = 1
    /\ group' = Unbound
    /\ pc' = "list_loop"
    /\ UNCHANGED <<entry, args, env, cfgfile, config_vars, session, atexit,
                   disconnects, vm_list, host, result, error, stdout, exit_code>>

\* lines 207-208: the call of output_vm_data
MainHost ==
    /\ pc = "dispatch"
    /\ ~args.list
    /\ host' = args.host
    /\ pc' = "host_scan"
    /\ UNCHANGED <<entry, args, env, cfgfile, config_vars, session, atexit,
                   disconnects, vm_list, group_by, use_ip, idx, group,
                   inventory, result, error, stdout, exit_code>>

\* line 210, then the end of the script: status 0
PrintOk ==
    /\ pc = "print"
    /\ stdout' = Append(stdout, result)
    /\ pc' = "exiting"
    /\ exit_code' = 0
    /\ UNCHANGED <<entry, args, env, cfgfile, config_vars, session, atexit,
                   disconnects, vm_list, group_by, use_ip, host, idx, group,
                   inventory, result, error>>

\* line 210: print raises (standard output is closed)
PrintError ==
    /\ pc = "print"
    /\ Raise("OSError")
    /\ UNCHANGED <<entry, args, env, cfgfile, config_vars, session, atexit,
                   disconnects, vm_list, group_by, use_ip, host, idx, group,
                   inventory, result, stdout>>

\* the number of calls of func the registered handlers make
Calls(handlers, func) == Cardinality({k \in 1..Len(handlers) : handlers[k] = func})

\* interpreter termination: every registered handler is called once;
\* Disconnect(esxi) closes the session
RunExitHandlers ==
    /\ pc = "exiting"
    /\ disconnects' = disconnects + Calls(atexit, "Disconnect")
    /\ session' = IF Calls(atexit, "Disconnect") > 0 THEN "closed" ELSE session
    /\ atexit' = <<>>
    /\ pc' = "exited"
    /\ UNCHANGED <<entry, args, env, cfgfile, config_vars, vm_list, group_by,
                   use_ip, host, idx, group, inventory, result, error, stdout,
                   exit_code>>

\* the script is started (lines 213-215)
Init ==
    /\ Idle
    /\ entry = "main"
    /\ pc = "parse_args"
    /\ vm_list = NotRead
    /\ group_by = NotRead
    /\ use_ip = NotRead
    /\ host = NotRead
    /\ idx = 1
    /\ group = Unbound
    /\ inventory = NotRead

\* the environments of the runs of main: the four connection settings are
\* set together or not at all, the grouping key on its own
MainEnvs ==
    {e \in Envs : \A k \in 1..4 : (e[Fields[k]] = Unset) = (e[Fields[1]] = Unset)}

\* config_get_vars reads the environment and the file of the run
MainConfig ==
    \E e \in MainEnvs, f \in Files :
        \/ ConfigOpenError(e, f)
        \/ ConfigYamlError(e, f)
        \/ ConfigMissingVar(e, f)
        \/ ConfigOk(e, f)

Next ==
    \/ ParseArgsError
    \/ ParseArgsHelp
    \/ ParseArgsOk
    \/ MainConfig
    \/ ConnectOk
    \/ ConnectError
    \/ RegisterDisconnect
    \/ RetrieveContentOk
    \/ RetrieveContentError
    \/ EsxiGetVmsOk
    \/ EsxiGetVmsError
    \/ MainList
    \/ MainHost
    \/ ListSkip
    \/ ListAdd
    \/ ListUnbound
    \/ ListKeyError
    \/ ListReturn
    \/ HostReturn
    \/ PrintOk
    \/ PrintError
    \/ RunExitHandlers

Spec == Init /\ [][Next]_vars

----------------------------------------------------------------------------
(* Properties of the list projection, checked under SpecList.              *)

KnownGroupBys == {"vm_os_type_id", "vm_annotation_group"}

\* a record the list mode is meant to show: running, with guest tools
Eligible(vm) ==
    /\ vm.guest.guestState # "notRunning"
    /\ vm.guest.toolsStatus # "toolsNotInstalled"

\* the loop is between two iterations, or the method has returned
BetweenIterations == pc \in {"list_loop", "returned"}

\* the keys of inventory that name groups
GroupKeys == {k \in DOMAIN inventory : "hosts" \in DOMAIN inventory[k]}

Children == inventory["all"].children

Hostvars == inventory["_meta"].hostvars

\* the records the loop has been through
Done == 1..(idx - 1)

\* C1: in list mode a record that is not running or has no guest tools
\* contributes nothing: every element of a hosts list, every group and every
\* hostvars entry (key and attribute values) comes from an eligible record.
C1_IneligibleContributeNothing ==
    BetweenIterations =>
        /\ \A g \in GroupKeys : \A k \in 1..Len(inventory[g].hosts) :
              \E j \in Done :
                  /\ Eligible(vm_list[j])
                  /\ ComputeGroup(vm_list[j], group_by, Unbound) = g
                  /\ HostValue(vm_list[j], use_ip) = inventory[g].hosts[k]
        /\ \A h \in DOMAIN Hostvars :
              \E j \in 1..Len(vm_list) :
                  /\ Eligible(vm_list[j])
                  /\ HostValue(vm_list[j], use_ip) = h
                  /\ Hostvars[h] = VmInfo(vm_list[j])

RECURSIVE GroupSeq(_, _, _)
\* the groups of the eligible records among the first n, in iteration order
GroupSeq(vms, gb, n) ==
    IF n = 0 THEN <<>>
    ELSE IF Eligible(vms[n])
    THEN Append(GroupSeq(vms, gb, n - 1), ComputeGroup(vms[n], gb, Unbound))
    ELSE GroupSeq(vms, gb, n - 1)

RECURSIVE FirstOccurrences(_)
\* a sequence without the later occurrences of its elements
FirstOccurrences(seq) ==
    IF seq = <<>> THEN <<>>
    ELSE LET front == FirstOccurrences(SubSeq(seq, 1, Len(seq) - 1))
             last == seq[Len(seq)]
         IN  IF last \in Range(front) THEN front ELSE Append(front, last)

\* C3: all.children holds no name twice, holds exactly the groups of the
\* eligible records in the order of their first occurrence, and its names are
\* exactly the top-level entries that have a hosts list.
C3_ChildrenFirstOccurrence ==
    BetweenIterations =>
        /\ \A a, b \in 1..Len(Children) : Children[a] = Children[b] => a = b
        /\ Children = FirstOccurrences(GroupSeq(vm_list, group_by, idx - 1))
        /\ Range(Children) = GroupKeys

\* three eligible records whose groups are a, b, a
C3_Witness ==
    /\ pc = "returned"
    /\ Len(Children) = 2
    /\ LET groups == GroupSeq(vm_list, group_by, Len(vm_list))
       IN  /\ Len(groups) = 3
           /\ groups[1] = groups[3]
           /\ groups[1] # groups[2]

RECURSIVE HostsOf(_, _, _, _, _)
\* the host identifiers of the eligible records of group g among the first n
HostsOf(vms, gb, ip, g, n) ==
    IF n = 0 THEN <<>>
    ELSE IF Eligible(vms[n]) /\ ComputeGroup(vms[n], gb, Unbound) = g
    THEN Append(HostsOf(vms, gb, ip, g, n - 1), HostValue(vms[n], ip))
    ELSE HostsOf(vms, gb, ip, g, n - 1)

RECURSIVE SumLen(_, _)
\* the number of elements over the hosts lists of the groups in G
SumLen(inv, G) ==
    IF G = {} THEN 0
    ELSE LET g == CHOOSE x \in G : TRUE
         IN  Len(inv[g].hosts) + SumLen(inv, G \ {g})

\* C9: every eligible record is appended once to one hosts list, nothing is
\* de-duplicated: each group's hosts list is the identifiers of its records
\* in iteration order and the lists hold as many elements as there are
\* eligible records.
C9_OneAppendPerRecord ==
    BetweenIterations =>
        /\ \A g \in GroupKeys :
              inventory[g].hosts = HostsOf(vm_list, group_by, use_ip, g, idx - 1)
        /\ SumLen(inventory, GroupKeys) = Cardinality({j \in Done : Eligible(vm_list[j])})

\* two eligible records of one group with the same identifier: it is listed twice
C9_Witness ==
    /\ pc = "returned"
    /\ \E g \in GroupKeys : \E a, b \in 1..Len(inventory[g].hosts) :
          a # b /\ inventory[g].hosts[a] = inventory[g].hosts[b]

\* the group names the note of lines 112-114 gives an annotation: what
\* follows a group= and is made of [A-Za-z0-9_] up to a comma, semicolon,
\* colon, white space or the end
ShapeGroups(ann) ==
    {Str(SubSeq(ann, p + 7, p + 6 + n)) : <<p, n>> \in
        {pn \in (0..Len(ann)) \X (1..Len(ann)) :
            /\ LiteralAt(ann, pn[1])
            /\ pn[1] + 6 + pn[2] <= Len(ann)
            /\ \A k \in (pn[1] + 7)..(pn[1] + 6 + pn[2]) : ann[k] \in AsciiWord
            /\ \/ pn[1] + 6 + pn[2] = Len(ann)
               \/ ann[pn[1] + 7 + pn[2]] \in {",", ";", ":", " ", "\t", "\n", "\r", "\f"}}}

\* C5: grouped by annotation, an eligible record lands in the group its
\* annotation names after group= (word characters up to a delimiter or the
\* end, whatever precedes group=), in 'ungrouped' when it names none, and no
\* annotation makes the method fail.
C5_AnnotationGroup ==
    (entry = "output_vm_list_data" /\ group_by = "vm_annotation_group") =>
        /\ error = None
        /\ (idx > 1 /\ Eligible(vm_list[idx - 1])) =>
              LET named == ShapeGroups(vm_list[idx - 1].summary.config.annotation)
              IN  IF named = {} THEN group = "ungrouped" ELSE group \in named

----------------------------------------------------------------------------
(* Properties of output_vm_data (SpecHost), of config_get_vars             *)
(* (SpecConfig) and of main (Spec).                                        *)

\* the records whose guest address or guest host name is the one asked for
Matching == {k \in 1..Len(vm_list) :
                host \in {vm_list[k].guest.ipAddress, vm_list[k].guest.hostName}}

\* the last of them in iteration order
LastMatching == CHOOSE k \in Matching : \A j \in Matching : j <= k

\* C6: output_vm_data returns the attributes of the last record, eligible or
\* not, whose guest address or host name equals the query, and an empty
\* record when there is none.
C6_LastMatchWins ==
    (entry = "output_vm_data" /\ pc = "returned") =>
        result = JsonDumps(IF Matching = {} THEN EmptyDict
                           ELSE VmInfo(vm_list[LastMatching]))

\* two records match the query and the last of them is not eligible
C6_Witness ==
    /\ entry = "output_vm_data"
    /\ pc = "returned"
    /\ Cardinality(Matching) >= 2
    /\ ~Eligible(vm_list[LastMatching])
    /\ result.json.vm_name = vm_list[LastMatching].name

\* the setting is in the environment or in the file
Available(key) == env[key] # Unset \/ key \in DOMAIN cfgfile.content

\* C4: each setting resolves on its own, to the value of the environment if
\* set and else to the value of the file, and config_get_vars fails only
\* when a setting is in neither (the file being a well-formed mapping).
C4_PerFieldResolution ==
    (entry = "config_get_vars" /\ pc \in {"returned", "raised"}
        /\ cfgfile.kind = "mapping") =>
        /\ (pc = "returned") = (\A key \in Range(Fields) : Available(key))
        /\ pc = "returned" =>
              \A key \in Range(Fields) :
                  config_vars[key] = IF env[key] # Unset THEN env[key]
                                     ELSE cfgfile.content[key]

\* C7: a session that was opened is released exactly once, at process exit,
\* whatever the steps after the connection did; a run that opened none
\* releases none; nothing is released while the run is still going.
C7_ReleasedOnceAtExit ==
    entry = "main" =>
        /\ pc # "exited" => disconnects = 0 /\ session # "closed"
        /\ pc = "exited" =>
              \/ session = "none" /\ disconnects = 0
              \/ session = "closed" /\ disconnects = 1

\* the projection raised after the session was opened, and the session was
\* released at exit
C7_Witness ==
    /\ pc = "exited"
    /\ error = "KeyError"
    /\ session = "closed"
    /\ disconnects = 1

\* the JSON documents on standard output
Documents == {k \in 1..Len(stdout) : "json" \in DOMAIN stdout[k]}

\* C8: a run that went through every step writes exactly one JSON document
\* and ends with status 0; every other run ends with a non-zero status and
\* writes no JSON.
C8_JsonOnlyOnSuccess ==
    (entry = "main" /\ pc = "exited") =>
        \/ exit_code = 0 /\ error = None /\ stdout = <<result>>
                         /\ Documents = {1}
        \/ exit_code # 0 /\ Documents = {}

\* C10: with a group_by the method does not know no record gets a group:
\* the run fails at the first eligible record and writes no document, and
\* when no record is eligible the empty document is returned and printed.
C10_UnknownGroupBy ==
    (entry = "main" /\ group_by \notin KnownGroupBys \cup {NotRead}) =>
        /\ group = Unbound
        /\ inventory = NewInventory
        /\ \A j \in Done : ~Eligible(vm_list[j])
        /\ IF \E j \in 1..Len(vm_list) : Eligible(vm_list[j])
           THEN /\ pc \in {"list_loop", "exiting", "exited"}
                /\ result = NotRead
                /\ stdout = <<>>
                /\ pc # "list_loop" =>
                      /\ error = "UnboundLocalError"
                      /\ exit_code = 1
                      /\ Eligible(vm_list[idx])
           ELSE /\ pc # "list_loop" => result = JsonDumps(NewInventory)
                /\ pc \in {"exiting", "exited"} =>
                      \/ error = None /\ exit_code = 0
                                      /\ stdout = <<JsonDumps(NewInventory)>>
                      \/ error = "OSError" /\ stdout = <<>>

\* the run skipped a record and failed at the next, the first eligible one
C10_Witness ==
    /\ pc = "exited"
    /\ group_by = "vm_folder"
    /\ error = "UnboundLocalError"
    /\ idx = 2
    /\ stdout = <<>>

====
